---- MODULE Spec2Model ----
(***************************************************************************)
(* A model of the ShipEngine IPaaS SDK's Carrier entity: hideAndFreeze,    *)
(* the Carrier, DeliveryService and TrackingInfo constructors, localize,   *)
(* toJSON, and the wrappers around the user-defined carrier methods.       *)
(*                                                                         *)
(* A JavaScript object is a record: its own string-keyed properties        *)
(* (fields), its own symbol-keyed properties (syms), whether Object.freeze *)
(* has been applied to it (frozen), and, for a Carrier, the contents of    *)
(* the object stored under the _private symbol (priv).  A property value   *)
(* is a record too (see Val): object values are kept inline, so the heap   *)
(* is tree-shaped and two properties never hold the same object.           *)
(***************************************************************************)
EXTENDS Integers, Sequences, FiniteSets, TLC

VARIABLES
  entities,     \* the objects constructed so far, in order of construction
  constructed,  \* history: each entity as it was when its constructor returned
  pojos,        \* history: the plain object each entity was constructed from
  references,   \* app[_internal].references: indices of the registered entities
  last,         \* the last operation applied to an entity, and its outcome
  call          \* the invocation of a carrier method that is in flight

vars == <<entities, constructed, pojos, references, last, call>>

----------------------------------------------------------------------------
(* Bounds of the model *)

MaxEntities == 2
MaxElems == 3

----------------------------------------------------------------------------
(* JavaScript values and objects *)

\* A property: its value and its enumerable attribute.  type is the kind of
\* value, prim its content (a string, a URL's href, a function's name),
\* elems an array's elements, frozen whether the value (an object) is frozen,
\* innerFrozen whether the object nested inside the value is frozen.
Val(type, prim, elems) ==
  [type |-> type, prim |-> prim, elems |-> elems,
   frozen |-> FALSE, innerFrozen |-> FALSE, enumerable |-> TRUE]

Undefined == Val("undefined", "undefined", <<>>)
String(s) == Val("string", s, <<>>)
Array(elems) == Val("array", "", elems)
Function(name) == Val("function", name, <<>>)

\* An element of an array: a string (its id), or a nested entity or the plain
\* object of one, with its id, its name and its localization table.
Elem(kind, id, name, localization) ==
  [kind |-> kind, id |-> id, name |-> name, localization |-> localization]

\* JavaScript's typeof
typeof(value) ==
  CASE value.type \in {"object", "array", "buffer", "url"} -> "object"
    [] value.type = "function" -> "function"
    [] OTHER -> value.type

\* value instanceof Buffer
instanceofBuffer(value) == value.type = "buffer"

\* JavaScript's truthiness of a value
Truthy(value) ==
  /\ value.type # "undefined"
  /\ ~(value.type = "string" /\ value.prim = "")
  /\ ~(value.type = "boolean" /\ value.prim = "false")

NoPriv == [methods |-> [op \in {} |-> Undefined], localization |-> "none"]

NoObject ==
  [class |-> "none", frozen |-> FALSE,
   fields |-> [key \in {} |-> Undefined],
   syms |-> [symbol \in {} |-> Undefined],
   priv |-> NoPriv]

----------------------------------------------------------------------------
(* hideAndFreeze *)

\* Object.freeze(value) applied to a property's value: shallow, so the object
\* nested inside the value keeps its own state.
ObjectFreeze(value) == [value EXCEPT !.frozen = TRUE]

\* A first loop that has no omit list, for comparison
FreezeFieldsIgnoringOmit(obj, omit) ==
  [key \in DOMAIN obj.fields |->
    LET value == obj.fields[key] IN
    IF value.enumerable /\ typeof(value) \in {"object", "function"}
       /\ ~instanceofBuffer(value)
    THEN ObjectFreeze(value) ELSE value]

\* A first loop that freezes nothing, for comparison
FreezeFieldsNone(obj, omit) == obj.fields

\* The first loop of hideAndFreeze: Object.entries(obj) lists the own
\* enumerable string-keyed properties.
FreezeFields(obj, omit) ==
  [key \in DOMAIN obj.fields |->
    LET value == obj.fields[key] IN
    IF ~value.enumerable THEN value
    ELSE IF key \in omit THEN value
    ELSE IF typeof(value) \in {"object", "function"}
      THEN (IF ~instanceofBuffer(value) THEN ObjectFreeze(value) ELSE value)
      ELSE value]

\* Object.defineProperty(obj, symbol, { enumerable: false }) throws a
\* TypeError when the property is not configurable (the object is frozen)
\* and the call would change its enumerable attribute.
DefinePropertyThrows(obj, symbol) ==
  obj.frozen /\ obj.syms[symbol].enumerable

\* The second loop of hideAndFreeze, when no defineProperty throws.
HideSymbols(obj) ==
  [symbol \in DOMAIN obj.syms |->
    [ObjectFreeze(obj.syms[symbol]) EXCEPT !.enumerable = FALSE]]

\* hideAndFreeze(obj, ...omit): the object it leaves behind, and whether it
\* threw.  An object of the model has at most one symbol-keyed property, so a
\* throw in the second loop happens before any symbol is hidden.
hideAndFreeze(obj, omit) ==
  LET fieldsFrozen == [obj EXCEPT !.fields = FreezeFields(obj, omit)] IN
  IF \E symbol \in DOMAIN obj.syms : DefinePropertyThrows(obj, symbol)
  THEN [threw |-> TRUE, obj |-> fieldsFrozen]
  ELSE [threw |-> FALSE,
        obj |-> [fieldsFrozen EXCEPT !.syms = HideSymbols(obj), !.frozen = TRUE]]

----------------------------------------------------------------------------
(* What the host can try on an object it holds.  The SDK's code is strict-mode
   JavaScript: a write to a frozen object throws a TypeError and changes
   nothing. *)

EmptyPojo == [key \in {} |-> Undefined]

\* The record of the SDK's last operation: op its name, i the entity it was applied
\* to, key and omit its arguments, before the entity as it was when the
\* operation began, threw whether it threw, json the plain object it
\* returned, result the index of the entity it returned.
NoLast ==
  [op |-> "none", i |-> 0, key |-> "", omit |-> {}, before |-> NoObject,
   threw |-> FALSE, json |-> EmptyPojo, result |-> 0]

\* A value that a user-defined method returns, or that its promise is
\* fulfilled with: nothing (undefined), an object, or a string.  valid: the
\* result entity's constructor accepts it.
NoValue ==
  [kind |-> "undefined", valid |-> FALSE, frozen |-> FALSE,
   shipments |-> "undefined", successful |-> FALSE,
   cancellationID |-> "undefined", data |-> "undefined"]

\* What a user-defined method does when it is called: it returns a value,
\* throws an error, or returns a promise that is later fulfilled with a value
\* (resolve) or rejected with an error (reject).
NoUser == [mode |-> "none", value |-> NoValue, error |-> "none"]

\* What a call ends with: an entity returned (class "undefined" for no
\* entity), or an error thrown with its code, originalError and transactionID.
NoEntity ==
  [class |-> "none", shipments |-> "undefined", successful |-> FALSE,
   cancellationID |-> "undefined", data |-> "undefined"]

NoResult ==
  [kind |-> "none", value |-> NoEntity, originalError |-> "none",
   transactionID |-> "none"]

NoTransaction == [id |-> "none"]
NoRequest == [id |-> "none", shipments |-> "undefined"]

\* The call in flight: pc is idle (no call), awaiting (suspended at its await)
\* or done (it has returned or thrown); invoked counts the calls it has made
\* to the user-defined method.
NoCall ==
  [pc |-> "idle", op |-> "none", transaction |-> NoTransaction,
   request |-> NoRequest, user |-> NoUser, invoked |-> 0, result |-> NoResult]

Restrict(f, keys) == [key \in keys |-> f[key]]

Hacked == String("hacked")
HackedElem == Elem("string", "hacked", "hacked", "{}")

\* obj[key] = value
SetField(obj, key, value) ==
  IF obj.frozen THEN obj
  ELSE IF key \in DOMAIN obj.fields
    THEN [obj EXCEPT !.fields[key] =
            [value EXCEPT !.enumerable = obj.fields[key].enumerable]]
    ELSE [obj EXCEPT !.fields = (key :> value) @@ obj.fields]

\* delete obj[key]
DeleteField(obj, key) ==
  IF obj.frozen THEN obj
  ELSE [obj EXCEPT !.fields = Restrict(obj.fields, DOMAIN obj.fields \ {key})]

\* obj[key][n] = "hacked"
SetElement(obj, key, n) ==
  IF obj.fields[key].frozen THEN obj
  ELSE [obj EXCEPT !.fields[key].elems[n] = HackedElem]

\* obj[key].push("hacked")
PushElement(obj, key) ==
  IF obj.fields[key].frozen THEN obj
  ELSE [obj EXCEPT !.fields[key].elems = Append(@, HackedElem)]

\* obj[key].pop()
PopElement(obj, key) ==
  IF obj.fields[key].frozen THEN obj
  ELSE [obj EXCEPT !.fields[key].elems = SubSeq(@, 1, Len(@) - 1)]

Attempt(i, after) ==
  /\ entities' = [entities EXCEPT ![i] = after]
  /\ last' = [NoLast EXCEPT !.op = "attempt", !.i = i,
                            !.threw = (after = entities[i])]
  /\ UNCHANGED <<constructed, pojos, references, call>>

AttemptAdd ==
  \E i \in DOMAIN entities :
    /\ "extra" \notin DOMAIN entities[i].fields
    /\ Attempt(i, SetField(entities[i], "extra", Hacked))

AttemptReassign ==
  \E i \in DOMAIN entities : \E key \in DOMAIN entities[i].fields :
    /\ entities[i].fields[key] # Hacked
    /\ Attempt(i, SetField(entities[i], key, Hacked))

AttemptDelete ==
  \E i \in DOMAIN entities : \E key \in DOMAIN entities[i].fields :
    Attempt(i, DeleteField(entities[i], key))

Collections(obj) == {key \in DOMAIN obj.fields : obj.fields[key].type = "array"}

AttemptSetElement ==
  \E i \in DOMAIN entities : \E key \in Collections(entities[i]) :
    \E n \in DOMAIN entities[i].fields[key].elems :
      /\ entities[i].fields[key].elems[n] # HackedElem
      /\ Attempt(i, SetElement(entities[i], key, n))

AttemptPush ==
  \E i \in DOMAIN entities : \E key \in Collections(entities[i]) :
    /\ Len(entities[i].fields[key].elems) < MaxElems
    /\ Attempt(i, PushElement(entities[i], key))

AttemptPop ==
  \E i \in DOMAIN entities : \E key \in Collections(entities[i]) :
    /\ Len(entities[i].fields[key].elems) > 0
    /\ Attempt(i, PopElement(entities[i], key))

Attempts ==
  \/ AttemptAdd
  \/ AttemptReassign
  \/ AttemptDelete
  \/ AttemptSetElement
  \/ AttemptPush
  \/ AttemptPop

----------------------------------------------------------------------------
(* hideAndFreeze applied to an arbitrary object *)

\* The objects hideAndFreeze is tried on: an object-valued field with an object
\* nested inside it (data), one that its owner may have frozen already (meta),
\* a function, a Buffer, a string, an array, and possibly a symbol-keyed field.
PlainObject(hasSymbol, dataEnumerable, dataInnerFrozen, metaFrozen) ==
  [class |-> "plain", frozen |-> FALSE,
   fields |->
     [data |-> [Val("object", "data", <<>>) EXCEPT
                  !.enumerable = dataEnumerable, !.innerFrozen = dataInnerFrozen],
      meta |-> [Val("object", "meta", <<>>) EXCEPT !.frozen = metaFrozen],
      handler |-> Function("handler"),
      image |-> Val("buffer", "image", <<>>),
      name |-> String("name"),
      items |-> Array(<<Elem("string", "a", "a", "{}")>>)],
   syms |-> IF hasSymbol
            THEN [_internal |-> Val("object", "internal", <<>>)]
            ELSE [symbol \in {} |-> Undefined],
   priv |-> NoPriv]

PlainObjects ==
  {PlainObject(s, e, n, m) : s \in BOOLEAN, e \in BOOLEAN, n \in BOOLEAN, m \in BOOLEAN}

OmitLists == SUBSET {"data", "meta", "image"}

\* hideAndFreeze(obj, ...omit)
CallHideAndFreeze ==
  \E i \in DOMAIN entities : \E omit \in OmitLists :
    LET done == hideAndFreeze(entities[i], omit) IN
    /\ entities[i].class = "plain"
    /\ entities' = [entities EXCEPT ![i] = done.obj]
    /\ last' = [NoLast EXCEPT !.op = "hideAndFreeze", !.i = i, !.omit = omit,
                              !.before = entities[i], !.threw = done.threw]
    /\ UNCHANGED <<constructed, pojos, references, call>>

\* Object.freeze(obj): the object is frozen by other means than hideAndFreeze
CallObjectFreeze ==
  \E i \in DOMAIN entities :
    /\ entities[i].class = "plain"
    /\ entities' = [entities EXCEPT ![i].frozen = TRUE]
    /\ last' = [NoLast EXCEPT !.op = "Object.freeze", !.i = i,
                              !.before = entities[i]]
    /\ UNCHANGED <<constructed, pojos, references, call>>

InitFreeze ==
  /\ \E obj \in PlainObjects :
       /\ entities = <<obj>>
       /\ constructed = <<obj>>
  /\ pojos = <<EmptyPojo>>
  /\ references = {}
  /\ last = NoLast
  /\ call = NoCall

NextFreeze ==
  \/ CallHideAndFreeze
  \/ CallObjectFreeze

SpecFreeze == InitFreeze /\ [][NextFreeze]_vars

----------------------------------------------------------------------------
(* Claims about hideAndFreeze, checked under SpecFreeze *)

\* What Object.getOwnPropertyDescriptors shows of an object: whether it is
\* frozen, its keys, and each property's value and enumerable attribute (not
\* the state of the objects the values refer to).
Shallow(value) == [value EXCEPT !.frozen = FALSE, !.innerFrozen = FALSE]

Descriptors(obj) ==
  [frozen |-> obj.frozen,
   fields |-> [key \in DOMAIN obj.fields |-> Shallow(obj.fields[key])],
   syms |-> [symbol \in DOMAIN obj.syms |-> Shallow(obj.syms[symbol])]]

\* C8: hideAndFreeze applied to an object that is already frozen, by an earlier
\* hideAndFreeze or by Object.freeze, with or without symbol-keyed fields,
\* completes without error and leaves the object, its property attributes and
\* its field values unchanged.
C8_IdempotentOnFrozen ==
  (last.op = "hideAndFreeze" /\ last.before.frozen) =>
    /\ ~last.threw
    /\ Descriptors(entities[last.i]) = Descriptors(last.before)

\* C9: hideAndFreeze freezes the object itself and the value of each enumerable
\* string-keyed field that is an object or a function, except the fields named
\* in the omit list and the Buffers, which stay as mutable as they were; the
\* object nested inside a field's value stays as mutable as it was; nothing
\* else about a field changes.
C9_FreezesOneLevel ==
  last.op = "hideAndFreeze" =>
    LET before == last.before
        after == entities[last.i]
    IN
    /\ after.frozen
    /\ DOMAIN after.fields = DOMAIN before.fields
    /\ \A key \in DOMAIN before.fields :
         LET b == before.fields[key]
             a == after.fields[key]
         IN
         /\ Shallow(a) = Shallow(b)
         /\ a.innerFrozen = b.innerFrozen
         /\ (key \in last.omit \/ b.type = "buffer") => a.frozen = b.frozen
         /\ (/\ key \notin last.omit
             /\ b.enumerable
             /\ b.type \in {"object", "array", "url", "function"}) => a.frozen
         /\ b.type \in {"string", "boolean", "undefined"} => a.frozen = b.frozen

\* C9's case: one call with an omit list froze an object with a Buffer, an
\* omitted object-valued field and a field whose value has an unfrozen object
\* nested in it.
C9_Witness ==
  /\ last.op = "hideAndFreeze"
  /\ ~last.threw
  /\ ~last.before.frozen
  /\ last.omit = {"meta"}
  /\ ~last.before.fields["data"].frozen
  /\ last.before.fields["data"].enumerable
  /\ entities[last.i].frozen
  /\ entities[last.i].fields["data"].frozen
  /\ ~entities[last.i].fields["data"].innerFrozen
  /\ ~entities[last.i].fields["meta"].frozen
  /\ ~entities[last.i].fields["image"].frozen
  /\ entities[last.i].fields["handler"].frozen

----------------------------------------------------------------------------
(* The Carrier entity *)

Ops ==
  {"requestPickup", "cancelPickup", "createLabel", "voidLabel",
   "getRates", "getTrackingURL", "track", "createManifest"}

\* pojo[key], which is undefined when the plain object has no such property
Get(pojo, key) == IF key \in DOMAIN pojo THEN pojo[key] ELSE Undefined

Map(seq, F(_)) == [n \in DOMAIN seq |-> F(seq[n])]

\* new URL(value): the href of a URL or of a URL string, as the parser
\* normalises it (an empty path becomes "/").
Href(url) ==
  CASE url = "http://fedex.com" -> "http://fedex.com/"
    [] url = "http://fedex.es" -> "http://fedex.es/"
    [] OTHER -> url

NewURL(value) == Val("url", Href(value.prim), <<>>)

\* new DeliveryService(svc, app) and new PickupService(svc, app): the nested
\* entity of a service's plain object.
NewService(svc) ==
  [svc EXCEPT !.kind = IF svc.kind = "DeliveryServicePOJO"
                       THEN "DeliveryService" ELSE "PickupService"]

\* The tables of localized values that a configuration can register, by name:
\* locale -> the fields it overrides.
LocalizationTable(localization) ==
  CASE localization = "{es}" ->
         ("es" :> [name |-> String("FedEx ES"),
                   websiteURL |-> String("http://fedex.es")])
    [] localization = "{es-MX}" ->
         ("es-MX" :> [name |-> String("FedEx MX")])
    [] OTHER -> [locale \in {} |-> EmptyPojo]

Locales == {"es", "es-MX", "fr"}

Language(locale) == IF locale = "es-MX" THEN "es" ELSE locale

\* Localization.lookup(locale): the exact locale's values, else its
\* language's, else none.
lookup(localization, locale) ==
  LET table == LocalizationTable(localization) IN
  IF locale \in DOMAIN table THEN table[locale]
  ELSE IF Language(locale) \in DOMAIN table THEN table[Language(locale)]
  ELSE EmptyPojo

\* A constructor that sets no method to undefined, for comparison
UnimplementedNone(pojo) == [op \in {} |-> Undefined]

\* The methods that the configuration does not implement: the constructor
\* sets each as an own property with the value undefined, which shadows the
\* class's method of that name.
Unimplemented(pojo) ==
  [op \in {op \in Ops : ~Truthy(Get(pojo, op))} |-> Undefined]

\* The object the Carrier constructor has built when it reaches hideAndFreeze.
CarrierThis(pojo) ==
  [class |-> "Carrier", frozen |-> FALSE,
   fields |->
     Unimplemented(pojo)
     @@
     [id |-> pojo.id,
      name |-> pojo.name,
      description |-> IF Truthy(Get(pojo, "description"))
                      THEN pojo.description ELSE String(""),
      websiteURL |-> NewURL(pojo.websiteURL),
      logo |-> pojo.logo,
      deliveryServices |-> Array(Map(pojo.deliveryServices.elems, NewService)),
      pickupServices |-> IF Truthy(Get(pojo, "pickupServices"))
                         THEN Array(Map(pojo.pickupServices.elems, NewService))
                         ELSE Array(<<>>)],
   syms |-> [_private |-> Val("object", "private", <<>>)],
   priv |->
     [methods |-> [op \in Ops |-> IF Truthy(Get(pojo, op)) THEN pojo[op]
                                  ELSE Undefined],
      localization |-> IF Truthy(Get(pojo, "localization"))
                       THEN pojo.localization.prim ELSE "{}"]]

\* A constructor without its hideAndFreeze(this), for comparison
CarrierNotFrozen(pojo) == CarrierThis(pojo)

\* new Carrier(pojo, app): the entity (its registration with the app is in
\* the actions that construct one).
Carrier(pojo) == hideAndFreeze(CarrierThis(pojo), {}).obj

\* A nested service's toJSON(locale)
ServiceToJSON(svc, locale) ==
  LET localizedValues == IF locale # "" THEN lookup(svc.localization, locale)
                         ELSE EmptyPojo
  IN [svc EXCEPT !.kind = IF svc.kind = "DeliveryService"
                          THEN "DeliveryServicePOJO" ELSE "PickupServicePOJO",
                 !.name = IF "name" \in DOMAIN localizedValues
                          THEN localizedValues.name.prim ELSE svc.name]

\* The own enumerable string-keyed properties of an object: { ...obj }
Spread(obj) ==
  Restrict(obj.fields, {key \in DOMAIN obj.fields : obj.fields[key].enumerable})

\* A toJSON that takes the values of "es" whatever the locale, for comparison
toJSONOfOneLocale(carrier, locale) ==
  LET localization == carrier.priv.localization
      methods == carrier.priv.methods
      localizedValues == IF locale # "" THEN lookup(localization, "es")
                         ELSE EmptyPojo
  IN localizedValues
     @@ [deliveryServices |->
           Array([n \in DOMAIN Get(carrier.fields, "deliveryServices").elems |->
                   ServiceToJSON(carrier.fields.deliveryServices.elems[n], locale)]),
         pickupServices |->
           Array([n \in DOMAIN Get(carrier.fields, "pickupServices").elems |->
                   ServiceToJSON(carrier.fields.pickupServices.elems[n], locale)]),
         localization |-> Val("object", localization, <<>>)]
     @@ methods
     @@ Spread(carrier)

\* A toJSON that leaves the user-defined methods out, for comparison
toJSONWithoutMethods(carrier, locale) ==
  LET localization == carrier.priv.localization
      localizedValues == IF locale # "" THEN lookup(localization, locale)
                         ELSE EmptyPojo
  IN localizedValues
     @@ [deliveryServices |->
           Array([n \in DOMAIN Get(carrier.fields, "deliveryServices").elems |->
                   ServiceToJSON(carrier.fields.deliveryServices.elems[n], locale)]),
         pickupServices |->
           Array([n \in DOMAIN Get(carrier.fields, "pickupServices").elems |->
                   ServiceToJSON(carrier.fields.pickupServices.elems[n], locale)]),
         localization |-> Val("object", localization, <<>>)]
     @@ Spread(carrier)

\* carrier.toJSON(locale); no locale is the empty string
toJSON(carrier, locale) ==
  LET localization == carrier.priv.localization
      methods == carrier.priv.methods
      localizedValues == IF locale # "" THEN lookup(localization, locale)
                         ELSE EmptyPojo
  IN localizedValues
     @@ [deliveryServices |->
           Array([n \in DOMAIN Get(carrier.fields, "deliveryServices").elems |->
                   ServiceToJSON(carrier.fields.deliveryServices.elems[n], locale)]),
         pickupServices |->
           Array([n \in DOMAIN Get(carrier.fields, "pickupServices").elems |->
                   ServiceToJSON(carrier.fields.pickupServices.elems[n], locale)]),
         localization |-> Val("object", localization, <<>>)]
     @@ methods
     @@ Spread(carrier)

\* localize(carrier, locale) of common/localization: the plain object that
\* carrier.localize hands to the constructor.
localizePojo(carrier, locale) == toJSON(carrier, locale)

----------------------------------------------------------------------------
(* The DeliveryService of shipping-provider and the TrackingInfo entity *)

Boolean(b) == Val("boolean", IF b THEN "true" ELSE "false", <<>>)

\* assert.string(value, name, default) and its like: the value, or the default
\* when the configuration leaves the field out.
OrDefault(value, default) == IF value.type = "undefined" THEN default ELSE value

NewNested(kind, pojo) == [pojo EXCEPT !.kind = kind]

\* The object the DeliveryService constructor has built when it reaches its
\* Object.freeze calls; carrier is the Carrier it has constructed.
DeliveryServiceThis(config, carrier) ==
  [class |-> "DeliveryService", frozen |-> FALSE,
   fields |->
     [id |-> config.id,
      name |-> config.name,
      description |-> OrDefault(Get(config, "description"), String("")),
      class |-> config.class,
      grade |-> config.grade,
      originCountries |-> Array(config.originCountries.elems),
      destinationCountries |-> Array(config.destinationCountries.elems),
      carrier |-> carrier,
      packaging |->
        Array([n \in DOMAIN config.packaging.elems |->
                NewNested("Packaging", config.packaging.elems[n])]),
      deliveryConfirmations |->
        Array([n \in DOMAIN OrDefault(Get(config, "deliveryConfirmations"),
                                      Array(<<>>)).elems |->
                NewNested("DeliveryConfirmation",
                          config.deliveryConfirmations.elems[n])]),
      labelFormats |-> Array(OrDefault(Get(config, "labelFormats"), Array(<<>>)).elems),
      labelSizes |-> Array(OrDefault(Get(config, "labelSizes"), Array(<<>>)).elems),
      isReturnService |-> OrDefault(Get(config, "isReturnService"), Boolean(FALSE)),
      allowsMultiplePackages |->
        OrDefault(Get(config, "allowsMultiplePackages"), Boolean(FALSE)),
      hasTracking |-> OrDefault(Get(config, "hasTracking"), Boolean(FALSE)),
      requiresManifest |-> IF Truthy(Get(config, "requiresManifest"))
                           THEN config.requiresManifest ELSE Boolean(FALSE)],
   syms |-> [symbol \in {} |-> Undefined],
   priv |-> NoPriv]

FrozenArrays ==
  {"originCountries", "destinationCountries", "packaging",
   "deliveryConfirmations", "labelFormats", "labelSizes"}

\* new DeliveryService(config)
DeliveryService(config, carrier) ==
  LET this == DeliveryServiceThis(config, carrier) IN
  [this EXCEPT
     !.frozen = TRUE,
     !.fields = [key \in DOMAIN this.fields |->
                  IF key \in FrozenArrays THEN ObjectFreeze(this.fields[key])
                  ELSE this.fields[key]]]

\* new TrackingInfo(pojo, app); the fields that super(pojo) sets are left out
TrackingInfo(pojo) ==
  hideAndFreeze(
    [class |-> "TrackingInfo", frozen |-> FALSE,
     fields |->
       [deliveryDateTime |-> IF Truthy(Get(pojo, "deliveryDateTime"))
                             THEN Val("object", pojo.deliveryDateTime.prim, <<>>)
                             ELSE Undefined,
        packages |->
          Array([n \in DOMAIN pojo.packages.elems |->
                  NewNested("PackageTrackingInfo", pojo.packages.elems[n])]),
        events |->
          Array([n \in DOMAIN pojo.events.elems |->
                  NewNested("TrackingEvent", pojo.events.elems[n])])],
     syms |-> [symbol \in {} |-> Undefined],
     priv |-> NoPriv],
    {}).obj

----------------------------------------------------------------------------
(* Constructing, serializing and localizing entities *)

MinimalCarrier ==
  [id |-> String("carrier-1"),
   name |-> String("FedEx"),
   websiteURL |-> String("http://fedex.com"),
   logo |-> String("logo.svg"),
   deliveryServices |->
     Array(<<Elem("DeliveryServicePOJO", "ds-1", "Ground", "{}")>>)]

FullCarrier ==
  [id |-> String("carrier-2"),
   name |-> String("FedEx"),
   description |-> String("Federal Express"),
   websiteURL |-> String("http://fedex.com"),
   logo |-> String("logo.svg"),
   deliveryServices |->
     Array(<<Elem("DeliveryServicePOJO", "ds-1", "Ground", "{}"),
             Elem("DeliveryServicePOJO", "ds-2", "Express", "{es-MX}")>>),
   pickupServices |->
     Array(<<Elem("PickupServicePOJO", "ps-1", "Pickup", "{es}")>>),
   localization |-> Val("object", "{es}", <<>>)]

Implemented == {Ops, {}, {"requestPickup", "getRates", "track"}}

\* The validated plain objects a Carrier is constructed from
CarrierPOJOs ==
  {[op \in implemented |-> Function(op)] @@ pojo :
     pojo \in {MinimalCarrier, FullCarrier}, implemented \in Implemented}

MinimalDeliveryService ==
  [id |-> String("ds-1"),
   name |-> String("Ground"),
   class |-> String("ground"),
   grade |-> String("standard"),
   originCountries |-> Array(<<Elem("string", "US", "US", "{}")>>),
   destinationCountries |-> Array(<<Elem("string", "US", "US", "{}")>>),
   packaging |-> Array(<<Elem("PackagingConfig", "pkg-1", "Box", "{}")>>)]

FullDeliveryService ==
  [description |-> String("Ground delivery"),
   deliveryConfirmations |->
     Array(<<Elem("DeliveryConfirmationConfig", "dc-1", "Signature", "{}")>>),
   labelFormats |-> Array(<<Elem("string", "pdf", "pdf", "{}")>>),
   labelSizes |-> Array(<<Elem("string", "4x6", "4x6", "{}")>>),
   isReturnService |-> Boolean(TRUE),
   hasTracking |-> Boolean(TRUE),
   requiresManifest |-> String("digital")]
  @@ MinimalDeliveryService

DeliveryServiceConfigs == {MinimalDeliveryService, FullDeliveryService}

TrackingInfoPOJOs ==
  {[packages |-> Array(<<Elem("PackageTrackingInfoPOJO", "pkg-1", "Box", "{}")>>),
    events |-> Array(<<Elem("TrackingEventPOJO", "ev-1", "Accepted", "{}")>>)],
   [deliveryDateTime |-> String("2020-05-01T10:00:00Z"),
    packages |-> Array(<<Elem("PackageTrackingInfoPOJO", "pkg-1", "Box", "{}")>>),
    events |-> Array(<<Elem("TrackingEventPOJO", "ev-1", "Accepted", "{}"),
                       Elem("TrackingEventPOJO", "ev-2", "Delivered", "{}")>>)]}

\* A constructor returns: the entity joins the objects the host holds.
Constructs(entity, pojo) ==
  /\ Len(entities) < MaxEntities
  /\ entities' = Append(entities, entity)
  /\ constructed' = Append(constructed, entity)
  /\ pojos' = Append(pojos, pojo)
  /\ UNCHANGED call

\* new Carrier(pojo, app)
NewCarrier ==
  \E pojo \in CarrierPOJOs :
    /\ Constructs(Carrier(pojo), pojo)
    /\ references' = references \cup {Len(entities) + 1}
    /\ last' = [NoLast EXCEPT !.op = "new Carrier", !.json = pojo,
                              !.result = Len(entities) + 1]

\* new DeliveryService(config)
NewDeliveryService ==
  \E config \in DeliveryServiceConfigs : \E carrierFrozen \in BOOLEAN :
    /\ Constructs(
         DeliveryService(config,
           [Val("object", "carrier", <<>>) EXCEPT !.frozen = carrierFrozen]),
         config)
    /\ last' = [NoLast EXCEPT !.op = "new DeliveryService", !.json = config,
                              !.result = Len(entities) + 1]
    /\ UNCHANGED references

\* new TrackingInfo(pojo, app)
NewTrackingInfo ==
  \E pojo \in TrackingInfoPOJOs :
    /\ Constructs(TrackingInfo(pojo), pojo)
    /\ last' = [NoLast EXCEPT !.op = "new TrackingInfo", !.json = pojo,
                              !.result = Len(entities) + 1]
    /\ UNCHANGED references

\* carrier.localize(locale)
CallLocalize ==
  \E i \in DOMAIN entities : \E locale \in Locales :
    LET pojo == localizePojo(entities[i], locale) IN
    /\ entities[i].class = "Carrier"
    /\ Constructs(Carrier(pojo), pojo)
    /\ references' = references \cup {Len(entities) + 1}
    /\ last' = [NoLast EXCEPT !.op = "localize", !.i = i, !.key = locale,
                              !.before = entities[i], !.json = pojo,
                              !.result = Len(entities) + 1]

\* carrier.toJSON(locale)
CallToJSON ==
  \E i \in DOMAIN entities : \E locale \in Locales \cup {""} :
    /\ entities[i].class = "Carrier"
    /\ last' = [NoLast EXCEPT !.op = "toJSON", !.i = i, !.key = locale,
                              !.before = entities[i],
                              !.json = toJSON(entities[i], locale)]
    /\ UNCHANGED <<entities, constructed, pojos, references, call>>

\* new Carrier(carrier.toJSON(), app): a carrier is constructed again from its
\* own serialization.
NewCarrierFromJSON ==
  \E i \in DOMAIN entities :
    LET pojo == toJSON(entities[i], "") IN
    /\ entities[i].class = "Carrier"
    /\ Constructs(Carrier(pojo), pojo)
    /\ references' = references \cup {Len(entities) + 1}
    /\ last' = [NoLast EXCEPT !.op = "new Carrier(toJSON())", !.i = i,
                              !.before = entities[i], !.json = pojo,
                              !.result = Len(entities) + 1]

InitEntity ==
  /\ entities = <<>>
  /\ constructed = <<>>
  /\ pojos = <<>>
  /\ references = {}
  /\ last = NoLast
  /\ call = NoCall

\* Entities are constructed and the host tries to change them.
NextEntity ==
  \/ NewCarrier
  \/ NewDeliveryService
  \/ NewTrackingInfo
  \/ Attempts

SpecEntity == InitEntity /\ [][NextEntity]_vars

\* Carriers are constructed, localized and serialized.
NextCarrier ==
  \/ NewCarrier
  \/ CallLocalize
  \/ CallToJSON
  \/ NewCarrierFromJSON

SpecCarrier == InitEntity /\ [][NextCarrier]_vars

----------------------------------------------------------------------------
(* Claims about the entities, checked under SpecEntity and SpecCarrier *)

\* carrier[op] is a function: the own property if there is one, else the
\* method of the class.
Callable(carrier, op) ==
  IF op \in DOMAIN carrier.fields THEN carrier.fields[op].type = "function"
  ELSE TRUE

\* C6: each of the eight operations is callable on a constructed Carrier if
\* and only if the configuration supplied a function for it; when it supplied
\* none, the operation's value on the entity is undefined.
C6_CallableIffImplemented ==
  \A i \in DOMAIN entities :
    entities[i].class = "Carrier" =>
      \A op \in Ops :
        /\ Callable(entities[i], op) <=> Truthy(Get(pojos[i], op))
        /\ ~Truthy(Get(pojos[i], op)) =>
             (op \in DOMAIN entities[i].fields /\ entities[i].fields[op] = Undefined)

\* C6's case: a Carrier constructed from a configuration that implements some
\* methods and not others.
C6_Witness ==
  \E i \in DOMAIN entities :
    /\ entities[i].class = "Carrier"
    /\ Truthy(Get(pojos[i], "getRates"))
    /\ Callable(entities[i], "getRates")
    /\ ~Truthy(Get(pojos[i], "createLabel"))
    /\ ~Callable(entities[i], "createLabel")

\* C7: whatever the host tries to add, delete or reassign, on an entity or on
\* one of its collections, the entity's fields and their values (the elements
\* of its collections included) are those it had when it was constructed.
C7_FreezeInvariant ==
  \A i \in DOMAIN entities : entities[i].fields = constructed[i].fields

\* C7's case: the host holds a DeliveryService and an entity frozen by
\* hideAndFreeze, and its last attempt to change one was rejected.
C7_Witness ==
  /\ last.op = "attempt"
  /\ last.threw
  /\ \E i \in DOMAIN entities : entities[i].class = "DeliveryService"
  /\ \E i \in DOMAIN entities : entities[i].class \in {"Carrier", "TrackingInfo"}

\* C10: localize returns a new frozen Carrier, not the receiver, and no
\* sequence of localize and toJSON calls changes a Carrier: its fields, its
\* services and its localization table are those it was constructed with.
C10_LocalizeLeavesReceiver ==
  /\ \A i \in DOMAIN entities : entities[i] = constructed[i]
  /\ last.op = "localize" =>
       /\ last.result \in DOMAIN entities
       /\ last.result # last.i
       /\ entities[last.result].class = "Carrier"
       /\ entities[last.result].frozen
       /\ entities[last.result].fields.deliveryServices.frozen
       /\ entities[last.result].fields.pickupServices.frozen
       /\ entities[last.i] = last.before

\* C10's case: a Carrier was localized to a locale that overrides its name;
\* the copy has the localized name and the receiver still has its own.
C10_Witness ==
  /\ last.op = "localize"
  /\ entities[last.result].fields.name = String("FedEx ES")
  /\ entities[last.i].fields.name = String("FedEx")
  /\ entities[last.i].priv.localization = "{es}"

----------------------------------------------------------------------------
(* The wrappers around the user-defined methods *)

WrapperOps ==
  {"requestPickup", "cancelPickup", "createLabel", "getRates", "getTrackingURL"}

StubOps == {"voidLabel", "track", "createManifest"}

UUIDs == {"tx-1", "tx-2"}

\* The raw transactions and requests that the host passes in
Transactions == {[id |-> "tx-1"], [id |-> "tx-2"], [id |-> "not-a-uuid"]}

Requests ==
  {[id |-> "request-1", shipments |-> "shipments-A"],
   [id |-> "", shipments |-> "shipments-A"]}

\* new Transaction(pojo): the entity, or the validation error it throws
Transaction(pojo) ==
  IF pojo.id \in UUIDs
  THEN [threw |-> FALSE, error |-> "none", entity |-> [id |-> pojo.id]]
  ELSE [threw |-> TRUE, error |-> "ValidationError: Invalid Transaction",
        entity |-> NoTransaction]

RequestClass(op) ==
  CASE op = "requestPickup" -> "PickupRequest"
    [] op = "cancelPickup" -> "PickupCancellation"
    [] op = "createLabel" -> "LabelSpec"
    [] op = "getRates" -> "RateCriteria"
    [] op = "getTrackingURL" -> "TrackingCriteria"

\* new PickupRequest(request, app) and the other request entities
NewRequest(op, pojo) ==
  IF pojo.id # ""
  THEN [threw |-> FALSE, error |-> "none", entity |-> pojo]
  ELSE [threw |-> TRUE, error |-> "ValidationError: Invalid " \o RequestClass(op),
        entity |-> NoRequest]

\* new PickupConfirmation(pojo) and the other result entities: the entity
\* with the plain object's fields, or the error it throws.
NewEntity(class, pojo) ==
  IF pojo.kind = "object" /\ pojo.valid
  THEN [threw |-> FALSE, error |-> "none",
        entity |-> [class |-> class, shipments |-> pojo.shipments,
                    successful |-> pojo.successful,
                    cancellationID |-> pojo.cancellationID,
                    data |-> pojo.data]]
  ELSE [threw |-> TRUE, error |-> "ValidationError: Invalid " \o class,
        entity |-> NoEntity]

Threw(error) == [threw |-> TRUE, error |-> error, entity |-> NoEntity]

\* error(code, message, { originalError, transactionID })
error(code, originalError, transactionID) ==
  [kind |-> code, value |-> NoEntity, originalError |-> originalError,
   transactionID |-> transactionID]

Returned(entity) ==
  [kind |-> "returned", value |-> entity, originalError |-> "none",
   transactionID |-> "none"]

\* A first try block that constructs the transaction only, for comparison
TryInputsTransactionOnly(op, transaction, request) ==
  LET _transaction == Transaction(transaction) IN
  IF _transaction.threw
  THEN [threw |-> TRUE, _transaction |-> NoTransaction,
        result |-> error("InvalidInput", _transaction.error, "undefined")]
  ELSE [threw |-> FALSE, _transaction |-> _transaction.entity, result |-> NoResult]

\* The first try block of a wrapper, and its catch.
TryInputs(op, transaction, request) ==
  LET _transaction == Transaction(transaction)
      _request == NewRequest(op, request)
  IN
  IF _transaction.threw
  THEN [threw |-> TRUE, _transaction |-> NoTransaction,
        result |-> error("InvalidInput", _transaction.error, "undefined")]
  ELSE IF _request.threw
  THEN [threw |-> TRUE, _transaction |-> NoTransaction,
        result |-> error("InvalidInput", _request.error, "undefined")]
  ELSE [threw |-> FALSE, _transaction |-> _transaction.entity, result |-> NoResult]

\* A second catch that reports InvalidInput, for comparison
CatchAsInvalidInput(originalError, _transaction) ==
  error("InvalidInput", originalError, "undefined")

\* The catch of a wrapper's second try block
Catch(originalError, _transaction) ==
  LET transactionID == _transaction.id IN
  error("AppError", originalError, transactionID)

\* A requestPickup that hands the confirmation on as it is, for comparison
requestPickupResultAsIs(confirmation, request) ==
  NewEntity("PickupConfirmation", confirmation)

\* requestPickup after its await: the confirmation gets the request's
\* shipments when it has none, and becomes a PickupConfirmation.
requestPickupResult(confirmation, request) ==
  IF confirmation.kind = "undefined"
  THEN Threw("TypeError: Cannot read property 'shipments' of undefined")
  ELSE IF confirmation.frozen
  THEN Threw("TypeError: Cannot assign to read only property 'shipments'")
  ELSE NewEntity("PickupConfirmation",
         [confirmation EXCEPT !.shipments =
            IF @ # "undefined" THEN @ ELSE request.shipments])

\* No default for a missing confirmation, for comparison
NoDefault(confirmation) == confirmation

\* confirmation || { successful: true }
OrSuccessful(confirmation) ==
  IF confirmation.kind # "undefined" THEN confirmation
  ELSE [NoValue EXCEPT !.kind = "object", !.valid = TRUE, !.successful = TRUE]

\* cancelPickup after its await
cancelPickupResult(confirmation) ==
  NewEntity("PickupCancellationConfirmation", OrSuccessful(confirmation))

\* createLabel after its await
createLabelResult(confirmation) == NewEntity("LabelConfirmation", confirmation)

\* getRates after its await
getRatesResult(quote) == NewEntity("RateQuote", quote)

\* What a call of the user-defined method evaluates to when it does not throw:
\* the value it returns, or the promise it returns.
ReturnValue(user) ==
  IF user.mode \in {"resolve", "reject"}
  THEN [NoValue EXCEPT !.kind = "promise"]
  ELSE user.value

\* url ? new URL(url) : undefined
getTrackingURLResult(url) ==
  IF url.kind = "undefined"
  THEN [threw |-> FALSE, error |-> "none",
        entity |-> [NoEntity EXCEPT !.class = "undefined"]]
  ELSE IF url.kind = "string" /\ url.valid
  THEN [threw |-> FALSE, error |-> "none",
        entity |-> [NoEntity EXCEPT !.class = "URL", !.data = Href(url.data)]]
  ELSE Threw("TypeError: Invalid URL")

----------------------------------------------------------------------------
(* What the user-defined methods can do *)

Object(valid, frozen, shipments, successful, cancellationID, data) ==
  [kind |-> "object", valid |-> valid, frozen |-> frozen,
   shipments |-> shipments, successful |-> successful,
   cancellationID |-> cancellationID, data |-> data]

UrlString(valid, url) ==
  [NoValue EXCEPT !.kind = "string", !.valid = valid, !.data = url]

UserValues(op) ==
  {NoValue} \cup
  CASE op = "requestPickup" ->
         {Object(valid, frozen, shipments, FALSE, "undefined", "pickup-1") :
            valid \in BOOLEAN, frozen \in BOOLEAN,
            shipments \in {"undefined", "shipments-B"}}
    [] op = "cancelPickup" ->
         {Object(valid, FALSE, "undefined", successful, cancellationID, "cancellation") :
            valid \in BOOLEAN, successful \in BOOLEAN,
            cancellationID \in {"undefined", "cancel-1"}}
    [] op = "createLabel" ->
         {Object(valid, FALSE, "undefined", FALSE, "undefined", "label-1") :
            valid \in BOOLEAN}
    [] op = "getRates" ->
         {Object(valid, FALSE, "undefined", FALSE, "undefined", "quote-1") :
            valid \in BOOLEAN}
    [] op = "getTrackingURL" ->
         {UrlString(TRUE, "http://fedex.com"), UrlString(FALSE, "not a url")}

Errors == {"Error: the carrier's API failed"}

UserBehaviours(op) ==
  {[mode |-> mode, value |-> value, error |-> "none"] :
     mode \in {"return", "resolve"}, value \in UserValues(op)}
  \cup
  {[mode |-> mode, value |-> NoValue, error |-> e] :
     mode \in {"throw", "reject"}, e \in Errors}

----------------------------------------------------------------------------
(* Calls of the carrier's methods.  The host calls a method only when the
   carrier has it; the carrier is entities[1]. *)

Starts(op, transaction, request, next) ==
  /\ call.pc = "idle"
  /\ entities # <<>>
  /\ Callable(entities[1], op)
  /\ call' = [next EXCEPT !.op = op, !.transaction = transaction,
                          !.request = request]
  /\ UNCHANGED <<entities, constructed, pojos, references, last>>

\* An async wrapper up to its await: the inputs are constructed and the
\* user-defined method is called.
AsyncCall(op) ==
  \E transaction \in Transactions : \E request \in Requests :
    LET inputs == TryInputs(op, transaction, request) IN
    IF inputs.threw
    THEN Starts(op, transaction, request,
                [NoCall EXCEPT !.pc = "done", !.result = inputs.result])
    ELSE \E user \in UserBehaviours(op) :
           Starts(op, transaction, request,
                  IF user.mode = "throw"
                  THEN [NoCall EXCEPT !.pc = "done", !.user = user, !.invoked = 1,
                          !.result = Catch(user.error, inputs._transaction)]
                  ELSE [NoCall EXCEPT !.pc = "awaiting", !.user = user,
                          !.invoked = 1])

ResultOf(op, value, request) ==
  CASE op = "requestPickup" -> requestPickupResult(value, request)
    [] op = "cancelPickup" -> cancelPickupResult(value)
    [] op = "createLabel" -> createLabelResult(value)
    [] op = "getRates" -> getRatesResult(value)

\* An async wrapper from its await on: the promise of the user-defined method
\* has settled (a value that is no promise is awaited as a fulfilled one).
AsyncResume(op) ==
  LET _transaction == Transaction(call.transaction).entity
      built == ResultOf(op, call.user.value, call.request)
  IN
  /\ call.pc = "awaiting"
  /\ call.op = op
  /\ call' = [call EXCEPT
       !.pc = "done",
       !.result = IF call.user.mode = "reject"
                  THEN Catch(call.user.error, _transaction)
                  ELSE IF built.threw THEN Catch(built.error, _transaction)
                  ELSE Returned(built.entity)]
  /\ UNCHANGED <<entities, constructed, pojos, references, last>>

requestPickup == AsyncCall("requestPickup")
requestPickupResumes == AsyncResume("requestPickup")

cancelPickup == AsyncCall("cancelPickup")
cancelPickupResumes == AsyncResume("cancelPickup")

createLabel == AsyncCall("createLabel")
createLabelResumes == AsyncResume("createLabel")

getRates == AsyncCall("getRates")
getRatesResumes == AsyncResume("getRates")

\* getTrackingURL is not async: it runs to its end in one step, on whatever
\* the user-defined method returns.
getTrackingURL ==
  \E transaction \in Transactions : \E request \in Requests :
    LET inputs == TryInputs("getTrackingURL", transaction, request) IN
    IF inputs.threw
    THEN Starts("getTrackingURL", transaction, request,
                [NoCall EXCEPT !.pc = "done", !.result = inputs.result])
    ELSE \E user \in UserBehaviours("getTrackingURL") :
           LET built == getTrackingURLResult(ReturnValue(user)) IN
           Starts("getTrackingURL", transaction, request,
                  [NoCall EXCEPT
                     !.pc = "done", !.user = user, !.invoked = 1,
                     !.result =
                       IF user.mode = "throw"
                       THEN Catch(user.error, inputs._transaction)
                       ELSE IF built.threw
                       THEN Catch(built.error, inputs._transaction)
                       ELSE Returned(built.entity)])

\* A stub that calls the user-defined method of its name, for comparison
StubCallingUser(op) ==
  \E transaction \in Transactions :
    LET _transaction == Transaction(transaction) IN
    Starts(op, transaction, NoRequest,
           IF _transaction.threw
           THEN [NoCall EXCEPT !.pc = "done",
                   !.result = error("InvalidInput", _transaction.error, "undefined")]
           ELSE [NoCall EXCEPT !.pc = "awaiting", !.invoked = 1])

\* voidLabel, track and createManifest up to their await of
\* Promise.resolve(undefined)
StubCall(op) ==
  \E transaction \in Transactions :
    LET _transaction == Transaction(transaction) IN
    Starts(op, transaction, NoRequest,
           IF _transaction.threw
           THEN [NoCall EXCEPT !.pc = "done",
                   !.result = error("InvalidInput", _transaction.error, "undefined")]
           ELSE [NoCall EXCEPT !.pc = "awaiting"])

\* and from their await on
StubResume(op) ==
  /\ call.pc = "awaiting"
  /\ call.op = op
  /\ call' = [call EXCEPT !.pc = "done",
                !.result = Returned([NoEntity EXCEPT !.class = "undefined"])]
  /\ UNCHANGED <<entities, constructed, pojos, references, last>>

voidLabel == StubCall("voidLabel")
voidLabelResumes == StubResume("voidLabel")

track == StubCall("track")
trackResumes == StubResume("track")

createManifest == StubCall("createManifest")
createManifestResumes == StubResume("createManifest")

\* The host has the call's outcome; the next call can begin.
Return ==
  /\ call.pc = "done"
  /\ call' = NoCall
  /\ UNCHANGED <<entities, constructed, pojos, references, last>>

Init ==
  /\ \E pojo \in CarrierPOJOs :
       /\ entities = <<Carrier(pojo)>>
       /\ constructed = <<Carrier(pojo)>>
       /\ pojos = <<pojo>>
  /\ references = {1}
  /\ last = NoLast
  /\ call = NoCall

Next ==
  \/ requestPickup
  \/ requestPickupResumes
  \/ cancelPickup
  \/ cancelPickupResumes
  \/ createLabel
  \/ createLabelResumes
  \/ voidLabel
  \/ voidLabelResumes
  \/ getRates
  \/ getRatesResumes
  \/ getTrackingURL
  \/ track
  \/ trackResumes
  \/ createManifest
  \/ createManifestResumes
  \/ Return

Spec == Init /\ [][Next]_vars

----------------------------------------------------------------------------
(* Properties of the wrappers, under Spec *)

\* A call of a wrapper has ended
Ended == call.pc = "done" /\ call.op \in WrapperOps

\* The raw inputs of the call are the ones the schemas accept
ValidTransaction == call.transaction.id \in UUIDs
ValidRequest == call.request.id # ""
ValidInputs == ValidTransaction /\ ValidRequest

\* The user-defined method came to a value, now or later
Yields == call.user.mode \in {"return", "resolve"}

\* The user-defined method failed, now or later
Fails == call.user.mode \in {"throw", "reject"}

\* The value that the user-defined method came to is one that the result
\* entity of the operation accepts
ValidShape ==
  IF call.op = "getTrackingURL"
  THEN call.user.value.kind = "string" /\ call.user.value.valid
  ELSE call.user.value.kind = "object" /\ call.user.value.valid

\* The value is one that no result can be made of
Unconstructible ==
  CASE call.op = "getTrackingURL" ->
         call.user.value.kind = "string" /\ ~call.user.value.valid
    [] call.op = "cancelPickup" ->
         call.user.value.kind = "object" /\ ~call.user.value.valid
    [] OTHER ->
         call.user.value.kind = "undefined" \/ ~call.user.value.valid

ValidationErrors ==
  {"ValidationError: Invalid " \o class :
     class \in {"Transaction", "PickupRequest", "PickupCancellation",
                "LabelSpec", "RateCriteria", "TrackingCriteria",
                "PickupConfirmation", "PickupCancellationConfirmation",
                "LabelConfirmation", "RateQuote"}}

TypeErrors ==
  {"TypeError: Invalid URL",
   "TypeError: Cannot read property 'shipments' of undefined",
   "TypeError: Cannot assign to read only property 'shipments'"}

\* C1: a call of requestPickup, cancelPickup, createLabel, getRates or
\* getTrackingURL whose raw transaction or raw request is invalid ends, without
\* ever waiting, with an InvalidInput error that carries the validation error
\* as its originalError, and the user-defined method has not been called.
C1_InvalidInputBeforeUserCode ==
  (call.op \in WrapperOps /\ ~ValidInputs) =>
    /\ call.pc = "done"
    /\ call.result.kind = "InvalidInput"
    /\ call.result.originalError \in ValidationErrors
    /\ call.result.value = NoEntity
    /\ call.user = NoUser
    /\ call.invoked = 0

\* C1's case: getRates was called with a valid transaction and an invalid
\* request, and has thrown InvalidInput.
C1_Witness ==
  /\ Ended
  /\ call.op = "getRates"
  /\ ValidTransaction
  /\ ~ValidRequest
  /\ call.result.kind = "InvalidInput"
  /\ call.result.originalError = "ValidationError: Invalid RateCriteria"

\* C2: when the inputs are valid and the user-defined method throws or
\* rejects, the call ends with an AppError that has the transaction's id as
\* transactionID and the error of the user-defined method as originalError,
\* and the user-defined method was called once.
C2_UserErrorIsAppError ==
  (Ended /\ ValidInputs /\ Fails) =>
    /\ call.result.kind = "AppError"
    /\ call.result.transactionID = call.transaction.id
    /\ call.result.originalError = call.user.error
    /\ call.invoked = 1

\* C3: when the inputs are valid and the user-defined method returns, or
\* resolves with, a value that the result entity cannot be made of, the call
\* ends with an AppError that has the transaction's id and the error of the
\* construction; nothing is returned and the error is not an InvalidInput.
C3_InvalidResultIsAppError ==
  (Ended /\ ValidInputs /\ Yields /\ Unconstructible) =>
    /\ call.result.kind = "AppError"
    /\ call.result.transactionID = call.transaction.id
    /\ call.result.originalError \in ValidationErrors \cup TypeErrors
    /\ call.result.value = NoEntity
    /\ call.invoked = 1

\* C3's case: the user's createLabel resolved with an object that is no label
\* confirmation, and createLabel has thrown an AppError.
C3_Witness ==
  /\ Ended
  /\ call.op = "createLabel"
  /\ ValidInputs
  /\ call.user.mode = "resolve"
  /\ call.user.value.kind = "object"
  /\ ~call.user.value.valid
  /\ call.result.kind = "AppError"
  /\ call.result.originalError = "ValidationError: Invalid LabelConfirmation"

\* The class of the entity that a wrapper returns
ResultClass(op) ==
  CASE op = "requestPickup" -> "PickupConfirmation"
    [] op = "cancelPickup" -> "PickupCancellationConfirmation"
    [] op = "createLabel" -> "LabelConfirmation"
    [] op = "getRates" -> "RateQuote"
    [] op = "getTrackingURL" -> "URL"

\* C4: when the inputs are valid and the user-defined method returns, or
\* resolves with, a value of a valid shape, the call returns an entity of the
\* operation's result class that has the fields of that value, and throws
\* nothing.
C4_ValidResultIsReturned ==
  (Ended /\ ValidInputs /\ Yields /\ ValidShape) =>
    /\ call.result.kind = "returned"
    /\ call.result.value.class = ResultClass(call.op)
    /\ call.result.value.data =
         IF call.op = "getTrackingURL"
         THEN Href(call.user.value.data) ELSE call.user.value.data
    /\ call.result.value.successful = call.user.value.successful
    /\ call.result.value.cancellationID = call.user.value.cancellationID
    /\ call.user.value.shipments # "undefined" =>
         call.result.value.shipments = call.user.value.shipments

\* C5: cancelPickup with valid inputs, whose user-defined method returns or
\* resolves with no value, returns a PickupCancellationConfirmation with
\* successful true and no cancellationID.
C5_CancelPickupDefaultsToSuccessful ==
  (Ended /\ call.op = "cancelPickup" /\ ValidInputs /\ Yields
     /\ call.user.value.kind = "undefined") =>
    /\ call.result.kind = "returned"
    /\ call.result.value.class = "PickupCancellationConfirmation"
    /\ call.result.value.successful = TRUE
    /\ call.result.value.cancellationID = "undefined"

\* C5's case: the user's cancelPickup resolved with no value and cancelPickup
\* has returned its confirmation.
C5_Witness ==
  /\ Ended
  /\ call.op = "cancelPickup"
  /\ ValidInputs
  /\ call.user.mode = "resolve"
  /\ call.user.value = NoValue
  /\ call.result.kind = "returned"
  /\ call.result.value.successful

----------------------------------------------------------------------------
(* Serialization, under SpecCarrier *)

\* A table has values for the locale: for the locale itself or for its language
Registered(localization, locale) ==
  \/ locale \in DOMAIN LocalizationTable(localization)
  \/ Language(locale) \in DOMAIN LocalizationTable(localization)

\* Neither the carrier nor any of its services has values for the locale
NoOverrides(carrier, locale) ==
  /\ ~Registered(carrier.priv.localization, locale)
  /\ \A key \in {"deliveryServices", "pickupServices"} :
       \A n \in DOMAIN carrier.fields[key].elems :
         ~Registered(carrier.fields[key].elems[n].localization, locale)

\* C11: toJSON(locale) of a Carrier, for a locale that neither the carrier nor
\* any of its delivery and pickup services has localized values for, returns
\* the same plain object, field by field, as toJSON() without a locale.
C11_NoOverridesSameJSON ==
  (last.op = "toJSON" /\ last.key # "" /\ NoOverrides(entities[last.i], last.key)) =>
    /\ DOMAIN last.json = DOMAIN toJSON(entities[last.i], "")
    /\ \A key \in DOMAIN last.json :
         last.json[key] = toJSON(entities[last.i], "")[key]

\* C11's case: a carrier with Spanish values, and a service with Spanish
\* values, was serialized for "fr".
C11_Witness ==
  /\ last.op = "toJSON"
  /\ last.key = "fr"
  /\ entities[last.i].priv.localization = "{es}"
  /\ Len(entities[last.i].fields.pickupServices.elems) > 0
  /\ last.json.name = String("FedEx")

\* C12: a Carrier constructed from the toJSON() of a Carrier has the field
\* values of that Carrier, its private methods and localization, and the same
\* operations present.
C12_RoundTrip ==
  (last.op = "new Carrier(toJSON())") =>
    /\ entities[last.result].fields = entities[last.i].fields
    /\ entities[last.result].priv = entities[last.i].priv
    /\ entities[last.result].frozen = entities[last.i].frozen
    /\ \A op \in Ops :
         Callable(entities[last.result], op) <=> Callable(entities[last.i], op)

\* C12's case: a carrier with services, a localization and three of the eight
\* methods went through the round trip.
C12_Witness ==
  /\ last.op = "new Carrier(toJSON())"
  /\ entities[last.i].priv.localization = "{es}"
  /\ Callable(entities[last.i], "getRates")
  /\ ~Callable(entities[last.i], "createLabel")
  /\ Callable(entities[last.result], "getRates")
  /\ entities[last.result].fields.websiteURL.prim = "http://fedex.com/"

----------------------------------------------------------------------------
(* Construction from configurations that the schema does not accept *)

\* Carrier[_internal].schema, as far as the configurations here differ:
\* deliveryServices is Joi.array().min(1)
SchemaAccepts(pojo) == Len(pojo.deliveryServices.elems) >= 1

\* Plain objects of the CarrierPOJO type: the valid ones, and the same with no
\* delivery services
AnyCarrierPOJOs ==
  CarrierPOJOs \cup
  {[pojo EXCEPT !.deliveryServices = Array(<<>>)] : pojo \in CarrierPOJOs}

\* new Carrier(pojo, app) with any plain object of the type
NewCarrierOfAny ==
  \E pojo \in AnyCarrierPOJOs :
    /\ Constructs(Carrier(pojo), pojo)
    /\ references' = references \cup {Len(entities) + 1}
    /\ last' = [NoLast EXCEPT !.op = "new Carrier", !.json = pojo,
                              !.result = Len(entities) + 1]

NextConstruct == NewCarrierOfAny \/ CallToJSON

SpecConstruct == InitEntity /\ [][NextConstruct]_vars

\* C13: no Carrier is constructed from a configuration whose deliveryServices
\* is the empty array, and none is registered with the app: the constructor
\* throws InvalidInput instead.
C13_EmptyDeliveryServicesRejected ==
  \A i \in DOMAIN entities :
    entities[i].class = "Carrier" => SchemaAccepts(pojos[i])

----------------------------------------------------------------------------
(* Awaiting, stubs and defaults, under Spec *)

\* What the wrapper comes to when the user-defined method returns the value,
\* or throws the error, without a promise in between
SyncOutcome ==
  LET _transaction == Transaction(call.transaction).entity
      built == IF call.op = "getTrackingURL"
               THEN getTrackingURLResult(call.user.value)
               ELSE ResultOf(call.op, call.user.value, call.request)
  IN IF Fails THEN Catch(call.user.error, _transaction)
     ELSE IF built.threw THEN Catch(built.error, _transaction)
     ELSE Returned(built.entity)

\* C14: when the user-defined method returns a promise, the call ends as it
\* does when the method returns the promise's value, or throws the promise's
\* error, directly: the outcome is made of the settled value, never of the
\* promise itself.
C14_AwaitsUserFunction ==
  (Ended /\ ValidInputs /\ call.user.mode \in {"resolve", "reject"}) =>
    call.result = SyncOutcome

\* C16: voidLabel, track and createManifest never call the user-defined method
\* of their name, although the configuration has one; with a valid
\* transaction they return undefined, with an invalid one they throw
\* InvalidInput with the validation error.
C16_StubsReturnUndefined ==
  (call.op \in StubOps) =>
    /\ call.invoked = 0
    /\ call.user = NoUser
    /\ entities[1].priv.methods[call.op].type = "function"
    /\ call.pc = "done" =>
         IF ValidTransaction
         THEN call.result = Returned([NoEntity EXCEPT !.class = "undefined"])
         ELSE /\ call.result.kind = "InvalidInput"
              /\ call.result.originalError = "ValidationError: Invalid Transaction"
              /\ call.result.value = NoEntity

\* C16's case: track, which the configuration implements, was called with a
\* valid transaction and has returned undefined.
C16_Witness ==
  /\ call.op = "track"
  /\ call.pc = "done"
  /\ ValidTransaction
  /\ entities[1].priv.methods.track = Function("track")
  /\ call.result.kind = "returned"
  /\ call.result.value.class = "undefined"

----------------------------------------------------------------------------
(* Calls in flight together: while a call of a wrapper waits for the
   user-defined method, the host localizes and serializes the same carrier. *)

NextConcurrent ==
  \/ requestPickup
  \/ requestPickupResumes
  \/ cancelPickup
  \/ cancelPickupResumes
  \/ getTrackingURL
  \/ CallLocalize
  \/ CallToJSON
  \/ Return

SpecConcurrent == Init /\ [][NextConcurrent]_vars

\* What a call of a wrapper comes to when nothing else runs: a function of its
\* transaction, its request and what the user-defined method does
AloneOutcome ==
  LET inputs == TryInputs(call.op, call.transaction, call.request)
      url == getTrackingURLResult(ReturnValue(call.user))
  IN IF inputs.threw THEN inputs.result
     ELSE IF call.op # "getTrackingURL" THEN SyncOutcome
     ELSE IF call.user.mode = "throw"
     THEN Catch(call.user.error, inputs._transaction)
     ELSE IF url.threw THEN Catch(url.error, inputs._transaction)
     ELSE Returned(url.entity)

\* C15: whatever the interleaving of operation calls, localize calls and
\* toJSON calls, a call ends as it does alone, and no step changes state that
\* another call can read: the entities stay as they are, the app's references
\* stay as they are, and the raw request of a call in flight stays as it is.
C15_NoSharedMutableState ==
  /\ [](Ended => call.result = AloneOutcome)
  /\ [][/\ references' = references
        /\ \A i \in DOMAIN entities : entities'[i] = entities[i]
        /\ call.pc = "awaiting" => call'.request = call.request]_vars

----------------------------------------------------------------------------
(* requestPickup's result, under Spec *)

\* C17: requestPickup with valid inputs.  When the user-defined method comes
\* to no value, the call throws an AppError (the TypeError of reading
\* shipments of undefined) and nothing is put in the value's place.  When it
\* comes to a confirmation object without shipments, the PickupConfirmation
\* that is returned has the shipments of the raw request; one is returned
\* whenever the object is valid and can be written to.
C17_RequestPickupShipments ==
  (Ended /\ call.op = "requestPickup" /\ ValidInputs /\ Yields) =>
    /\ call.user.value.kind = "undefined" =>
         /\ call.result.kind = "AppError"
         /\ call.result.transactionID = call.transaction.id
         /\ call.result.originalError =
              "TypeError: Cannot read property 'shipments' of undefined"
         /\ call.result.value = NoEntity
    /\ (call.user.value.kind = "object" /\ call.user.value.valid
          /\ ~call.user.value.frozen) =>
         call.result.kind = "returned"
    /\ (call.user.value.kind = "object" /\ call.result.kind = "returned") =>
         /\ call.result.value.class = "PickupConfirmation"
         /\ call.result.value.data = call.user.value.data
         /\ call.result.value.shipments =
              IF call.user.value.shipments = "undefined"
              THEN call.request.shipments ELSE call.user.value.shipments

\* C17's case: the user's requestPickup resolved with a confirmation without
\* shipments, and the PickupConfirmation has the request's.
C17_Witness ==
  /\ Ended
  /\ call.op = "requestPickup"
  /\ ValidInputs
  /\ call.user.mode = "resolve"
  /\ call.user.value.kind = "object"
  /\ call.user.value.shipments = "undefined"
  /\ call.result.kind = "returned"
  /\ call.result.value.shipments = "shipments-A"

====
